---- MODULE Spec2Model ----
(***************************************************************************)
(* Model of nvim-oxi's test harness (src/src/tests.rs): the child-side     *)
(* runners plugin_body / plugin_body_with_terminator, the text protocol    *)
(* carried on the child's error stream (Failure / PanicInfo, Display /     *)
(* Debug / FromStr), and the parent-side test_body that spawns Neovim and  *)
(* interprets its exit status and streams.                                 *)
(*                                                                         *)
(* A Rust String is a sequence of one-character strings.  Option<T> is a   *)
(* sequence of length 0 (None) or 1 (Some).                                 *)
(***************************************************************************)
EXTENDS Integers, Sequences, FiniteSets, TLC

(***************************************************************************)
(* Text primitives of the Rust standard library used by the codec.         *)
(***************************************************************************)
None == <<>>

Some(v) == <<v>>

\* char::is_whitespace restricted to the characters the model's texts use.
WhiteSpace == {" ", "\n", "\t"}

DigitChars == <<"0", "1", "2", "3", "4", "5", "6", "7", "8", "9">>

IsDigit(c) == \E i \in 1..10 : DigitChars[i] = c

DigitVal(c) == (CHOOSE i \in 1..10 : DigitChars[i] = c) - 1

\* pat occurs in s starting at index i
MatchAt(s, pat, i) ==
    /\ i + Len(pat) - 1 <= Len(s)
    /\ \A k \in 1..Len(pat) : s[i + k - 1] = pat[k]

Contains(s, pat) == \E i \in 1..(Len(s) + 1) : MatchAt(s, pat, i)

\* index of the first occurrence of pat in s, 0 when there is none (str::find)
Find(s, pat) ==
    IF Contains(s, pat)
    THEN CHOOSE i \in 1..(Len(s) + 1) :
            /\ MatchAt(s, pat, i)
            /\ \A j \in 1..(i - 1) : ~MatchAt(s, pat, j)
    ELSE 0

\* str::split_once: None, or Some(<<before, after>>) around the FIRST occurrence
SplitOnce(s, pat) ==
    LET i == Find(s, pat) IN
    IF i = 0 THEN None
    ELSE Some(<<SubSeq(s, 1, i - 1), SubSeq(s, i + Len(pat), Len(s))>>)

RECURSIVE TrimStart(_)
TrimStart(s) ==
    IF s # <<>> /\ Head(s) \in WhiteSpace THEN TrimStart(Tail(s)) ELSE s

RECURSIVE TrimEnd(_)
TrimEnd(s) ==
    IF s # <<>> /\ s[Len(s)] \in WhiteSpace
    THEN TrimEnd(SubSeq(s, 1, Len(s) - 1))
    ELSE s

\* str::trim
Trim(s) == TrimEnd(TrimStart(s))

\* Display of an unsigned integer: decimal, no sign, no leading zeros
RECURSIVE FmtU32(_)
FmtU32(n) ==
    IF n < 10 THEN <<DigitChars[n + 1]>>
    ELSE FmtU32(n \div 10) \o <<DigitChars[(n % 10) + 1]>>

RECURSIVE DigitsValue(_)
DigitsValue(ds) ==
    IF ds = <<>> THEN 0
    ELSE 10 * DigitsValue(SubSeq(ds, 1, Len(ds) - 1)) + DigitVal(ds[Len(ds)])

RECURSIVE StripZeros(_)
StripZeros(ds) ==
    IF Len(ds) > 1 /\ Head(ds) = "0" THEN StripZeros(Tail(ds)) ELSE ds

\* decimal digits of u32::MAX = 4294967295
U32MaxDigits == <<"4", "2", "9", "4", "9", "6", "7", "2", "9", "5">>

\* ds (all digits, no leading zero) denotes a value above u32::MAX
RECURSIVE DigitsGreater(_, _)
DigitsGreater(a, b) ==
    IF a = <<>> THEN FALSE
    ELSE IF DigitVal(Head(a)) # DigitVal(Head(b))
         THEN DigitVal(Head(a)) > DigitVal(Head(b))
         ELSE DigitsGreater(Tail(a), Tail(b))

OverflowsU32(ds) ==
    \/ Len(ds) > Len(U32MaxDigits)
    \/ Len(ds) = Len(U32MaxDigits) /\ DigitsGreater(ds, U32MaxDigits)

\* <u32 as FromStr>::from_str: an optional "+", then one or more decimal
\* digits whose value fits 32 bits; None is the Err case.
ParseU32(s) ==
    LET ds == IF s # <<>> /\ Head(s) = "+" THEN Tail(s) ELSE s IN
    IF ds = <<>> \/ \E i \in 1..Len(ds) : ~IsDigit(ds[i]) THEN None
    ELSE IF OverflowsU32(StripZeros(ds)) THEN None
    ELSE Some(DigitsValue(StripZeros(ds)))

(***************************************************************************)
(* The wire protocol: literal keywords.                                    *)
(***************************************************************************)
KwPanic == <<"p", "a", "n", "i", "c", ":">>

KwThread == <<"t", "h", "r", "e", "a", "d", ":">>

KwFile == <<"f", "i", "l", "e", ":">>

KwLine == <<"l", "i", "n", "e", ":">>

KwColumn == <<"c", "o", "l", "u", "m", "n", ":">>

KwError == <<"e", "r", "r", "o", "r", ":">>

NL == <<"\n">>

\* struct PanicInfo
MkPanicInfo(msg, thread, file, line, column) ==
    [msg |-> msg, thread |-> thread, file |-> file, line |-> line, column |-> column]

\* enum Failure
FailureError(m) == [tag |-> "Error", msg |-> m]

FailurePanic(info) == [tag |-> "Panic", info |-> info]

\* mutant of DebugPanicInfo: the line is written under column: and the column
\* under line:
DebugPanicInfoSwapped(info) ==
    KwPanic \o info.msg
    \o NL \o KwThread \o info.thread
    \o (IF info.file # None THEN NL \o KwFile \o info.file[1] ELSE <<>>)
    \o (IF info.column # None THEN NL \o KwLine \o FmtU32(info.column[1]) ELSE <<>>)
    \o (IF info.line # None THEN NL \o KwColumn \o FmtU32(info.line[1]) ELSE <<>>)

\* impl Debug for PanicInfo: the encoded form of a panic record
DebugPanicInfo(info) ==
    KwPanic \o info.msg
    \o NL \o KwThread \o info.thread
    \o (IF info.file # None THEN NL \o KwFile \o info.file[1] ELSE <<>>)
    \o (IF info.line # None THEN NL \o KwLine \o FmtU32(info.line[1]) ELSE <<>>)
    \o (IF info.column # None THEN NL \o KwColumn \o FmtU32(info.column[1]) ELSE <<>>)

\* impl Display for Failure: the encoded form of a failure
DisplayFailure(f) ==
    IF f.tag = "Error" THEN KwError \o f.msg ELSE DebugPanicInfo(f.info)

\* mutant of PanicInfoFromStr: the text fields are stored untrimmed
PanicInfoFromStrNoTrim(s) ==
    LET p0 == SplitOnce(s, KwPanic) IN
    IF p0 = None THEN None ELSE
    LET p1 == SplitOnce(p0[1][2], KwThread) IN
    IF p1 = None THEN None ELSE
    LET p2 == SplitOnce(p1[1][2], KwFile) IN
    IF p2 = None THEN None ELSE
    LET p3 == SplitOnce(p2[1][2], KwLine) IN
    IF p3 = None THEN None ELSE
    LET p4 == SplitOnce(p3[1][2], KwColumn) IN
    IF p4 = None THEN None ELSE
    LET line == ParseU32(Trim(p4[1][1])) IN
    IF line = None THEN None ELSE
    LET column == ParseU32(Trim(p4[1][2])) IN
    IF column = None THEN None ELSE
    Some(MkPanicInfo(p1[1][1], p2[1][1], Some(p3[1][1]), line, column))

\* impl FromStr for PanicInfo; None is Err(())
PanicInfoFromStr(s) ==
    LET p0 == SplitOnce(s, KwPanic) IN
    IF p0 = None THEN None ELSE
    LET p1 == SplitOnce(p0[1][2], KwThread) IN
    IF p1 = None THEN None ELSE
    LET p2 == SplitOnce(p1[1][2], KwFile) IN
    IF p2 = None THEN None ELSE
    LET p3 == SplitOnce(p2[1][2], KwLine) IN
    IF p3 = None THEN None ELSE
    LET p4 == SplitOnce(p3[1][2], KwColumn) IN
    IF p4 = None THEN None ELSE
    LET line == ParseU32(Trim(p4[1][1])) IN
    IF line = None THEN None ELSE
    LET column == ParseU32(Trim(p4[1][2])) IN
    IF column = None THEN None ELSE
    Some(MkPanicInfo(Trim(p1[1][1]), Trim(p2[1][1]), Some(Trim(p3[1][1])),
                     line, column))

\* mutant of FailureFromStr: the panic grammar is tried before "error:"
FailureFromStrPanicFirst(s) ==
    LET p == PanicInfoFromStr(s) IN
    IF p # None THEN Some(FailurePanic(p[1]))
    ELSE LET e == SplitOnce(s, KwError) IN
         IF e # None THEN Some(FailureError(Trim(e[1][2]))) ELSE None

\* mutant of ErrorArm: the message is stored untrimmed
ErrorArmNoTrim(msg) == FailureError(msg)

\* the Some(..) arm of Failure::from_str
ErrorArm(msg) == FailureError(Trim(msg))

\* impl FromStr for Failure; None is Err(())
FailureFromStr(s) ==
    LET e == SplitOnce(s, KwError) IN
    IF e # None THEN Some(ErrorArm(e[1][2]))
    ELSE LET p == PanicInfoFromStr(s) IN
         IF p = None THEN None ELSE Some(FailurePanic(p[1]))

(***************************************************************************)
(* Inputs of the model: texts, thread names, locations, test bodies.       *)
(***************************************************************************)
MaxLine == 1

MaxExitCode == 2

MaxThreadPanics == 1

TOops == <<"o", "o", "p", "s">>

TLead == <<" ", "x">>

TThreadKw == <<"a", " ", "t", "h", "r", "e", "a", "d", ":", "b">>

TErrorKw == <<"e", "r", "r", "o", "r", ":", "e">>

TMain == <<"m", "a", "i", "n">>

TFileRs == <<"f", "i", "l", "e", ".", "r", "s">>

THi == <<" ", "h", "i", "\n">>

TFileLineKw == <<"a", " ", "l", "i", "n", "e", ":", "b">>

TFirst == <<"f", "i", "r", "s", "t">>

TWorker == <<"w">>

\* message texts a test body may fail or panic with
Msgs == {<<>>, TOops, TLead, TThreadKw, TErrorKw}

\* what thread::current().name() may return
ThreadNames == {None, Some(<<>>), Some(TMain)}

TTestName == <<"t", "1">>

\* what thread::current().name() may return in the parent: the test harness
\* names the thread of a test after the test
ParentThreadNames == ThreadNames \cup {Some(TTestName)}

LineNumbers == (0..MaxLine) \cup {42}

\* what std::panic::PanicInfo::location() may return; a file name may contain
\* a keyword of the panic grammar
Locations ==
    {None}
    \cup {Some([file |-> TFileRs, line |-> l, column |-> 7]) : l \in LineNumbers}
    \cup {Some([file |-> TFileLineKw, line |-> 42, column |-> 7])}

\* a panic payload (Box<dyn Any>): its dynamic type and, for the string types,
\* its text
Payloads ==
    {[ty |-> "other", text |-> <<>>]}
    \cup {[ty |-> "str", text |-> m] : m \in Msgs}
    \cup {[ty |-> "String", text |-> TOops], [ty |-> "refString", text |-> TOops]}

Panics ==
    {[kind |-> "panic", payload |-> p, thread |-> t, loc |-> l] :
        p \in Payloads, t \in ThreadNames, l \in Locations}

\* panics of threads the test body started; they run the process-wide hook
\* before the body itself ends
ThreadPanics ==
    {[kind |-> "panic", payload |-> [ty |-> "str", text |-> TFirst],
      thread |-> Some(TWorker), loc |-> l] :
        l \in {None, Some([file |-> TFileRs, line |-> 42, column |-> 7])}}

\* texts a test body may itself write to the error stream: they read like an
\* encoded failure and like an encoded panic
SayTexts ==
    {TErrorKw \o NL,
     DebugPanicInfo(MkPanicInfo(TOops, TMain, Some(TFileRs), Some(42), Some(7))) \o NL}

\* behaviours of a test body run by plugin_body (R = () or Result<(), E>): it
\* returns, panics, or unwinds through resume_unwind, which runs no hook; a
\* body of kind "say" writes to the error stream and returns Ok
Bodies ==
    {[kind |-> "unit"], [kind |-> "ok"]}
    \cup {[kind |-> "err", msg |-> m] : m \in Msgs}
    \cup Panics
    \cup {[kind |-> "unwind", thread |-> t] : t \in ThreadNames}
    \cup {[kind |-> "say", err |-> t] : t \in SayTexts}

\* arguments a test may give to TestTerminator::terminate
TermArgs ==
    {[kind |-> "ok"]} \cup {[kind |-> "err", msg |-> m] : m \in Msgs} \cup Panics

\* what the test body wrote to the child's standard output
StdoutTexts == {<<>>, THi, NL}

\* the extra_cmd argument: none, a setup command, or a command that makes
\* Neovim quit with an exit code before the library is loaded
ExtraCmds ==
    {[kind |-> "none"], [kind |-> "setup"]}
    \cup {[kind |-> "cquit", code |-> c] : c \in 1..MaxExitCode}

TLibArg == <<"a", ".", "s", "o">>

TTargetDir == <<"/", "t">>

TCrateLib == <<"l", "i", "b", "c", ".", "s", "o">>

\* the library_path argument
LibArgs == {None, Some(TLibArg)}

(***************************************************************************)
(* Panic capture.                                                          *)
(***************************************************************************)
TUnnamed == <<"<", "u", "n", "n", "a", "m", "e", "d", ">">>

\* downcast_display over &str, String, &String, then unwrap_or_default
PayloadMsg(p) ==
    IF p.ty \in {"str", "String", "refString"} THEN p.text ELSE <<>>

\* impl From<&panic::PanicInfo> for PanicInfo; name is thread::current().name()
PanicInfoFrom(payload, name, loc) ==
    MkPanicInfo(PayloadMsg(payload),
                IF name # None /\ name[1] # <<>> THEN name[1] ELSE TUnnamed,
                IF loc = None THEN None ELSE Some(loc[1].file),
                IF loc = None THEN None ELSE Some(loc[1].line),
                IF loc = None THEN None ELSE Some(loc[1].column))

\* OnceLock::set: the cell afterwards and whether the value was stored
OnceLockSet(cell, v) ==
    IF cell = None THEN [ok |-> TRUE, cell |-> Some(v)]
    ELSE [ok |-> FALSE, cell |-> cell]

\* Result<(), Failure>
ROk == [tag |-> "Ok"]

RErr(f) == [tag |-> "Err", failure |-> f]

\* the three arms of the match on catch_unwind's result in plugin_body
MatchCaught(c, slot) ==
    IF c.tag = "OkOk" THEN ROk
    ELSE IF c.tag = "OkErr" THEN RErr(FailureError(c.msg))
    ELSE RErr(FailurePanic(slot[1]))

\* res.map_err(Into::into) in terminate, with From<TestFailure> for Failure
MapErr(a) ==
    IF a.kind = "ok" THEN ROk
    ELSE IF a.kind = "err" THEN RErr(FailureError(a.msg))
    ELSE RErr(FailurePanic(PanicInfoFrom(a.payload, a.thread, a.loc)))

\* impl Display for PanicInfo: what the parent-side hook prints
DisplayPanicInfo(info) ==
    <<"t", "h", "r", "e", "a", "d", " ", "'">> \o info.thread
    \o <<"'", " ", "p", "a", "n", "i", "c", "k", "e", "d">>
    \o (IF info.file # None
        THEN <<" ", "a", "t", " ">> \o info.file[1]
             \o (IF info.line # None /\ info.column # None
                 THEN <<":">> \o FmtU32(info.line[1]) \o <<":">> \o FmtU32(info.column[1])
                 ELSE <<>>)
        ELSE <<>>)
    \o <<":", "\n">> \o info.msg

(***************************************************************************)
(* State.                                                                  *)
(***************************************************************************)
VARIABLES
    ppc,          \* parent (test_body): position
    libExists,    \* file system: the library file exists at the resolved path
    libArg,       \* parent: the library_path argument
    libPath,      \* parent: the resolved library path
    spawned,      \* parent: the processes spawned so far, in order
    parentThread, \* parent: thread::current().name() seen by the parent hook
    parentResult, \* parent: what test_body returned or panicked with
    parentStdout, \* parent: text printed to its standard output
    parentStderr, \* parent: text printed by its panic hook
    cpc,          \* child (Neovim running the plugin): position
    extraCmd,     \* child: the extra_cmd given on its command line
    mode,         \* child: which runner the plugin calls
    body,         \* child: what the test body did
    panic_info,   \* child: the OnceLock<PanicInfo> filled by the panic hook
    caught,       \* child: what catch_unwind returned
    result,       \* child: the argument of exit
    childStdout,  \* child: standard output
    childStderr,  \* child: error stream
    status,       \* child: exit status
    execLog,      \* child: Ex commands issued through api::exec
    exitCalls,    \* child: number of calls of exit
    childFault,   \* child: a panic outside catch_unwind, if any
    hookLog,      \* child: the records the panic hook was invoked with, in order
    tstate,       \* terminator: where the TestTerminator is
    targ,         \* terminator: the argument given to terminate
    tres,         \* terminator: res after map_err
    lock,         \* terminator: the OnceLock<Result<(), Failure>>
    pending,      \* terminator: the AsyncHandle has been sent and not yet served
    scheduled,    \* terminator: closures queued by schedule, oldest first
    nSends,       \* terminator: number of handle.send() calls
    nScheduled,   \* terminator: number of schedule() calls
    kpc,          \* codec run: position
    kIn,          \* codec run: the Failure given to Display
    kText,        \* codec run: the text Display produced
    kOut,         \* codec run: what Failure::from_str returned for kText
    kText2,       \* codec run: the text Display produced for the decoded Failure
    kOut2         \* codec run: what Failure::from_str returned for kText2

parentVars ==
    <<ppc, libExists, libArg, libPath, spawned, parentThread, parentResult,
      parentStdout, parentStderr>>

childVars ==
    <<cpc, extraCmd, mode, body, panic_info, caught, result, childStdout,
      childStderr, status, execLog, exitCalls, childFault, hookLog>>

termVars == <<tstate, targ, tres, lock, pending, scheduled, nSends, nScheduled>>

codecVars == <<kpc, kIn, kText, kOut, kText2, kOut2>>

vars == <<parentVars, childVars, termVars, codecVars>>

NoValue == [tag |-> "None"]

Running == [kind |-> "running"]

ExitCode(c) == [kind |-> "code", code |-> c]

Signalled == [kind |-> "signal"]

\* the harness before test_body starts
InitHarness ==
    /\ ppc = "start"
    /\ libExists \in BOOLEAN
    /\ libArg = None
    /\ libPath = <<>>
    /\ spawned = <<>>
    /\ parentThread = None
    /\ parentResult = NoValue
    /\ parentStdout = <<>>
    /\ parentStderr = <<>>
    /\ cpc = "idle"
    /\ extraCmd = [kind |-> "none"]
    /\ mode = "none"
    /\ body = [kind |-> "none"]
    /\ panic_info = None
    /\ caught = NoValue
    /\ result = NoValue
    /\ childStdout = <<>>
    /\ childStderr = <<>>
    /\ status = Running
    /\ execLog = <<>>
    /\ exitCalls = 0
    /\ childFault = "none"
    /\ hookLog = <<>>
    /\ tstate = "none"
    /\ targ = [kind |-> "none"]
    /\ tres = NoValue
    /\ lock = None
    /\ pending = FALSE
    /\ scheduled = <<>>
    /\ nSends = 0
    /\ nScheduled = 0

Init ==
    /\ InitHarness
    /\ kpc = "idle"
    /\ kIn = NoValue
    /\ kText = <<>>
    /\ kOut = None
    /\ kText2 = <<>>
    /\ kOut2 = None

(***************************************************************************)
(* Parent side: test_body and run_nvim_command.                            *)
(***************************************************************************)
\* the character ` (a TLA+ string cannot hold it)
BackTick == "BACKTICK"

POk == [tag |-> "Ok"]

PErr(m) == [tag |-> "Err", msg |-> m]

PPanic(payload) == [tag |-> "Panic", payload |-> payload]

\* the payload given to panic_any at the end of test_body
InfoPayload(info) == [ty |-> "PanicInfo", info |-> info]

TUnwrapErr ==
    <<"c", "a", "l", "l", "e", "d", " ", BackTick, "R", "e", "s", "u", "l", "t", ":", ":",
      "u", "n", "w", "r", "a", "p", "(", ")", BackTick, " ", "o", "n", " ", "a", "n", " ",
      BackTick, "E", "r", "r", BackTick, " ", "v", "a", "l", "u", "e">>

TTestsRs == <<"s", "r", "c", "/", "t", "e", "s", "t", "s", ".", "r", "s">>

TEnoent ==
    <<"N", "o", " ", "s", "u", "c", "h", " ", "f", "i", "l", "e", " ", "o", "r", " ",
      "d", "i", "r", "e", "c", "t", "o", "r", "y", " ", "(", "o", "s", " ", "e", "r",
      "r", "o", "r", " ", "2", ")">>

TNotFoundHead ==
    <<"C", "o", "m", "p", "i", "l", "e", "d", " ", "l", "i", "b", "r", "a", "r", "y",
      " ", "n", "o", "t", " ", "f", "o", "u", "n", "d", " ", "i", "n", " ", "'">>

TNotFoundTail ==
    <<"'", ".", " ", "P", "l", "e", "a", "s", "e", " ", "r", "u", "n", " ", BackTick, "c",
      "a", "r", "g", "o", " ", "b", "u", "i", "l", "d", BackTick, " ", "b", "e", "f", "o",
      "r", "e", " ", "r", "u", "n", "n", "i", "n", "g", " ", "t", "h", "e", " ", "t",
      "e", "s", "t", "s", ".">>

TExitCodeHead ==
    <<"N", "e", "o", "v", "i", "m", " ", "e", "x", "i", "t", "e", "d", " ", "w", "i",
      "t", "h", " ", "n", "o", "n", "-", "z", "e", "r", "o", " ", "e", "x", "i", "t",
      " ", "c", "o", "d", "e", ":", " ">>

TSegfault ==
    <<"N", "e", "o", "v", "i", "m", " ", "s", "e", "g", "f", "a", "u", "l", "t", "e", "d">>

\* Display of an i32
FmtI32(n) == IF n < 0 THEN <<"-">> \o FmtU32(0 - n) ELSE FmtU32(n)

\* the error of run_nvim_command when the library file is missing
NotFoundMsg(path) == TNotFoundHead \o path \o TNotFoundTail

\* target_dir(manifest_dir).join("debug").join(library_name)
DefaultLibPath == TTargetDir \o <<"/", "d", "e", "b", "u", "g", "/">> \o TCrateLib

\* mutant of ParentHookInfo: the parent's thread name is used only when the
\* record has no thread name of the child
ParentHookInfoKeepsChild(payload, name, loc) ==
    LET info == IF payload.ty = "PanicInfo" THEN payload.info
                ELSE PanicInfoFrom(payload, name, loc) IN
    IF info.thread = TUnnamed /\ name # None /\ name[1] # <<>>
    THEN [info EXCEPT !.thread = name[1]]
    ELSE info

\* the hook installed by test_body: the record it prints for a panic with this
\* payload, raised at loc while the current thread is called name
ParentHookInfo(payload, name, loc) ==
    LET info == IF payload.ty = "PanicInfo" THEN payload.info
                ELSE PanicInfoFrom(payload, name, loc) IN
    IF name # None /\ name[1] # <<>>
    THEN [info EXCEPT !.thread = name[1]]
    ELSE info

ParentHookPrint(payload, name, loc) ==
    DisplayPanicInfo(ParentHookInfo(payload, name, loc)) \o NL

\* ExitStatus::success
Success(st) == st.kind = "code" /\ st.code = 0

\* the message of test_body for a failed exit with an empty error stream
EmptyStderrMsg(st) ==
    IF st.kind = "code" THEN TExitCodeHead \o FmtI32(st.code) ELSE TSegfault

\* mutant of Interpret: a status without a code is a crash whatever was written
InterpretSignalFirst(st, stderr) ==
    IF Success(st) THEN POk
    ELSE IF st.kind # "code" THEN PErr(TSegfault)
    ELSE IF stderr = <<>> THEN PErr(EmptyStderrMsg(st))
    ELSE LET f == FailureFromStr(stderr) IN
         IF f = None THEN PErr(stderr)
         ELSE IF f[1].tag = "Error" THEN PErr(f[1].msg)
         ELSE PPanic(InfoPayload(f[1].info))

\* mutant of Interpret: text that does not decode is returned trimmed
InterpretTrimRaw(st, stderr) ==
    IF Success(st) THEN POk
    ELSE IF stderr = <<>> THEN PErr(EmptyStderrMsg(st))
    ELSE LET f == FailureFromStr(stderr) IN
         IF f = None THEN PErr(Trim(stderr))
         ELSE IF f[1].tag = "Error" THEN PErr(f[1].msg)
         ELSE PPanic(InfoPayload(f[1].info))

\* mutant of Interpret: a non-empty error stream is decoded before the status
\* is looked at
InterpretStderrFirst(st, stderr) ==
    IF stderr = <<>>
    THEN IF Success(st) THEN POk ELSE PErr(EmptyStderrMsg(st))
    ELSE LET f == FailureFromStr(stderr) IN
         IF f = None THEN PErr(stderr)
         ELSE IF f[1].tag = "Error" THEN PErr(f[1].msg)
         ELSE PPanic(InfoPayload(f[1].info))

\* mutant of Interpret: no early return for an empty error stream
InterpretDecodeFirst(st, stderr) ==
    IF Success(st) THEN POk
    ELSE LET f == FailureFromStr(stderr) IN
         IF f = None THEN PErr(stderr)
         ELSE IF f[1].tag = "Error" THEN PErr(f[1].msg)
         ELSE PPanic(InfoPayload(f[1].info))

\* test_body from output.status.success() on: what it returns or panics with
Interpret(st, stderr) ==
    IF Success(st) THEN POk
    ELSE IF stderr = <<>> THEN PErr(EmptyStderrMsg(st))
    ELSE LET f == FailureFromStr(stderr) IN
         IF f = None THEN PErr(stderr)
         ELSE IF f[1].tag = "Error" THEN PErr(f[1].msg)
         ELSE PPanic(InfoPayload(f[1].info))

\* panic::set_hook at the top of test_body
ParentSetHook ==
    /\ ppc = "start"
    /\ ppc' = "resolve"
    /\ UNCHANGED <<libExists, libArg, libPath, spawned, parentThread, parentResult,
                   parentStdout, parentStderr>>
    /\ UNCHANGED <<childVars, termVars>>
    /\ UNCHANGED codecVars

\* run_nvim_command: library_path given, or target_dir() which runs
\* `cargo metadata` and unwraps its result
ParentResolve ==
    /\ ppc = "resolve"
    /\ \E arg \in LibArgs :
        /\ libArg' = arg
        /\ \/ /\ arg # None
              /\ libPath' = arg[1]
              /\ ppc' = "exists"
              /\ UNCHANGED <<spawned, parentThread, parentResult, parentStderr>>
           \/ /\ arg = None
              /\ spawned' = Append(spawned, "cargo")
              /\ \/ /\ libPath' = DefaultLibPath
                    /\ ppc' = "exists"
                    /\ UNCHANGED <<parentThread, parentResult, parentStderr>>
                 \/ \E name \in ParentThreadNames :
                    LET payload == [ty |-> "String", text |-> TUnwrapErr]
                        loc == Some([file |-> TTestsRs, line |-> 24, column |-> 6]) IN
                    /\ parentThread' = name
                    /\ parentResult' = PPanic(payload)
                    /\ parentStderr' = parentStderr \o ParentHookPrint(payload, name, loc)
                    /\ ppc' = "done"
                    /\ UNCHANGED libPath
    /\ UNCHANGED <<libExists, parentStdout>>
    /\ UNCHANGED <<childVars, termVars>>
    /\ UNCHANGED codecVars

\* mutant of LibraryMissing: the check is skipped
LibraryMissingNever(exists) == FALSE

\* run_nvim_command: `if !library_path.exists()`
LibraryMissing(exists) == ~exists

\* run_nvim_command: the exists() check
ParentCheckExists ==
    /\ ppc = "exists"
    /\ IF ~LibraryMissing(libExists)
       THEN /\ ppc' = "spawn"
            /\ UNCHANGED parentResult
       ELSE /\ parentResult' = PErr(NotFoundMsg(libPath))
            /\ ppc' = "done"
    /\ UNCHANGED <<libExists, libArg, libPath, spawned, parentThread, parentStdout,
                   parentStderr>>
    /\ UNCHANGED <<childVars, termVars>>
    /\ UNCHANGED codecVars

\* Command::output(): spawn nvim (or fail to) and wait for it
ParentSpawn ==
    /\ ppc = "spawn"
    /\ \/ /\ spawned' = Append(spawned, "nvim")
          /\ \E cmd \in ExtraCmds : extraCmd' = cmd
          /\ cpc' = "startup"
          /\ ppc' = "wait"
          /\ UNCHANGED parentResult
       \/ /\ parentResult' = PErr(TEnoent)
          /\ ppc' = "done"
          /\ UNCHANGED <<spawned, extraCmd, cpc>>
    /\ UNCHANGED <<libExists, libArg, libPath, parentThread, parentStdout, parentStderr>>
    /\ UNCHANGED <<mode, body, panic_info, caught, result, childStdout, childStderr,
                   status, execLog, exitCalls, childFault,
                   hookLog>>
    /\ UNCHANGED termVars
    /\ UNCHANGED codecVars

\* mutant of EchoText: the child's output is passed on as it is
EchoTextRaw(out) == out

\* what test_body prints for the child's standard output: the trimmed text and
\* println!'s newline, or nothing when the trimmed text is empty
EchoText(out) == IF Trim(out) # <<>> THEN Trim(out) \o NL ELSE <<>>

\* the child has ended: trim its standard output and print it if not empty
ParentEcho ==
    /\ ppc = "wait"
    /\ cpc = "ended"
    /\ parentStdout' = parentStdout \o EchoText(childStdout)
    /\ ppc' = "interpret"
    /\ UNCHANGED <<libExists, libArg, libPath, spawned, parentThread, parentResult,
                   parentStderr>>
    /\ UNCHANGED <<childVars, termVars>>
    /\ UNCHANGED codecVars

\* the rest of test_body; a panic raised by panic_any runs the parent's hook
ParentInterpret ==
    /\ ppc = "interpret"
    /\ LET r == Interpret(status, childStderr) IN
       /\ parentResult' = r
       /\ IF r.tag = "Panic"
          THEN \E name \in ParentThreadNames :
                /\ parentThread' = name
                /\ parentStderr' = parentStderr \o ParentHookPrint(r.payload, name, None)
          ELSE UNCHANGED <<parentThread, parentStderr>>
    /\ ppc' = "done"
    /\ UNCHANGED <<libExists, libArg, libPath, spawned, parentStdout>>
    /\ UNCHANGED <<childVars, termVars>>
    /\ UNCHANGED codecVars

(***************************************************************************)
(* Child side: Neovim, plugin_body, exit.                                  *)
(***************************************************************************)
ChildAlive == cpc \notin {"idle", "ended"}

TAbort == <<"a", "b", "o", "r", "t", "e", "d", "\n">>

\* what eprintln!("{failure}") adds to the error stream in exit
ExitStderr(r) ==
    IF r.tag = "Err" THEN DisplayFailure(r.failure) \o NL ELSE <<>>

\* mutant of ExitCommand: the forced-error quit on success too
ExitCommandAlwaysCquit(r) == "cquit 1"

\* mutant of ExitCommand: the normal quit on failure too
ExitCommandAlwaysQall(r) == "qall!"

\* the Ex command exit issues
ExitCommand(r) == IF r.tag = "Err" THEN "cquit 1" ELSE "qall!"

\* Neovim's exit status for the two commands
CommandStatus(cmd) == IF cmd = "cquit 1" THEN ExitCode(1) ELSE ExitCode(0)

\* Neovim runs `-c extra_cmd` before loading the library
ChildExtraCmd ==
    /\ cpc = "startup"
    /\ IF extraCmd.kind = "cquit"
       THEN /\ status' = ExitCode(extraCmd.code)
            /\ cpc' = "ended"
       ELSE /\ cpc' = "load"
            /\ UNCHANGED status
    /\ UNCHANGED <<extraCmd, mode, body, panic_info, caught, result, childStdout,
                   childStderr, execLog, exitCalls, childFault,
                   hookLog>>
    /\ UNCHANGED <<parentVars, termVars>>
    /\ UNCHANGED codecVars

\* `lua package.loadlib(..)()` enters the plugin generated by the test macro
ChildLoad ==
    /\ cpc = "load"
    /\ \E m \in {"plain", "terminator"} : mode' = m
    /\ cpc' = "entry"
    /\ UNCHANGED <<extraCmd, body, panic_info, caught, result, childStdout,
                   childStderr, status, execLog, exitCalls, childFault,
                   hookLog>>
    /\ UNCHANGED <<parentVars, termVars>>
    /\ UNCHANGED codecVars

\* plugin_body: create the capture slot and install the hook
PluginSetHook ==
    /\ cpc = "entry"
    /\ mode = "plain"
    /\ panic_info' = None
    /\ cpc' = "call"
    /\ UNCHANGED <<extraCmd, mode, body, caught, result, childStdout, childStderr,
                   status, execLog, exitCalls, childFault,
                   hookLog>>
    /\ UNCHANGED <<parentVars, termVars>>
    /\ UNCHANGED codecVars

\* what catch_unwind(|| test_body().into_result()) returns for a body
CatchUnwind(b) ==
    IF b.kind \in {"panic", "unwind"} THEN [tag |-> "Err"]
    ELSE IF b.kind = "err" THEN [tag |-> "OkErr", msg |-> b.msg]
    ELSE [tag |-> "OkOk"]

\* mutant of ChildHook: the hook overwrites the record it holds
ChildHookLastWins(slot, b) == Some(PanicInfoFrom(b.payload, b.thread, b.loc))

\* the hook installed by plugin_body, run for a panic
ChildHook(slot, b) ==
    OnceLockSet(slot, PanicInfoFrom(b.payload, b.thread, b.loc)).cell

\* while the body runs, a thread it started panics: the hook runs for it
BodyThreadPanic ==
    /\ cpc = "call"
    /\ Len(hookLog) < MaxThreadPanics
    /\ \E p \in ThreadPanics :
        /\ panic_info' = ChildHook(panic_info, p)
        /\ hookLog' = Append(hookLog, PanicInfoFrom(p.payload, p.thread, p.loc))
    /\ UNCHANGED <<cpc, extraCmd, mode, body, caught, result, childStdout,
                   childStderr, status, execLog, exitCalls, childFault>>
    /\ UNCHANGED <<parentVars, termVars>>
    /\ UNCHANGED codecVars

\* what the body wrote to the error stream
BodyErr(b) == IF b.kind = "say" THEN b.err ELSE <<>>

\* plugin_body: the body runs under catch_unwind; a panic runs the hook first
PluginCallBody ==
    /\ cpc = "call"
    /\ \E b \in Bodies, out \in StdoutTexts :
        /\ body' = b
        /\ childStdout' = childStdout \o out
        /\ IF b.kind = "panic"
           THEN /\ panic_info' = ChildHook(panic_info, b)
                /\ hookLog' = Append(hookLog,
                                     PanicInfoFrom(b.payload, b.thread, b.loc))
           ELSE UNCHANGED <<panic_info, hookLog>>
        /\ caught' = CatchUnwind(b)
        /\ childStderr' = childStderr \o BodyErr(b)
    /\ cpc' = "match"
    /\ UNCHANGED <<extraCmd, mode, result, status, execLog, exitCalls, childFault>>
    /\ UNCHANGED <<parentVars, termVars>>
    /\ UNCHANGED codecVars

TUnwrapNone ==
    <<"c", "a", "l", "l", "e", "d", " ", BackTick, "O", "p", "t", "i", "o", "n", ":",
      ":", "u", "n", "w", "r", "a", "p", "(", ")", BackTick, " ", "o", "n", " ", "a",
      " ", BackTick, "N", "o", "n", "e", BackTick, " ", "v", "a", "l", "u", "e", "\n">>

\* the panic of `panic_info.get().unwrap()` on an empty slot, as the hook sees it
UnwrapPanic(name) ==
    [kind |-> "panic",
     payload |-> [ty |-> "str", text |-> TrimEnd(TUnwrapNone)],
     thread |-> name,
     loc |-> Some([file |-> TTestsRs, line |-> 57, column |-> 55])]

\* plugin_body: the match on catch_unwind's result, then the call of exit
PluginMatch ==
    /\ cpc = "match"
    /\ IF caught.tag = "Err" /\ panic_info = None
       THEN \* panic_info.get().unwrap() panics outside catch_unwind: the hook
            \* runs, and the panic leaves plugin_body without a call of exit
            /\ childFault' = "unwrap"
            /\ panic_info' = ChildHook(panic_info, UnwrapPanic(body.thread))
            /\ hookLog' = Append(hookLog,
                                 PanicInfoFrom(UnwrapPanic(body.thread).payload,
                                               body.thread, UnwrapPanic(body.thread).loc))
            /\ \E t \in {<<>>, TAbort} : childStderr' = childStderr \o t
            /\ status' = Signalled
            /\ cpc' = "ended"
            /\ UNCHANGED <<result, exitCalls>>
       ELSE /\ result' = MatchCaught(caught, panic_info)
            /\ exitCalls' = exitCalls + 1
            /\ cpc' = "exit"
            /\ UNCHANGED <<childFault, childStderr, status, panic_info, hookLog>>
    /\ UNCHANGED <<extraCmd, mode, body, caught, childStdout, execLog>>
    /\ UNCHANGED <<parentVars, termVars>>
    /\ UNCHANGED codecVars

\* exit: eprintln! of a failure
ExitPrint ==
    /\ cpc = "exit"
    /\ childStderr' = childStderr \o ExitStderr(result)
    /\ cpc' = "exec"
    /\ UNCHANGED <<extraCmd, mode, body, panic_info, caught, result, childStdout,
                   status, execLog, exitCalls, childFault,
                   hookLog>>
    /\ UNCHANGED <<parentVars, termVars>>
    /\ UNCHANGED codecVars

\* exit: api::exec of the quit command, which ends the process
ExitExec ==
    /\ cpc = "exec"
    /\ execLog' = Append(execLog, ExitCommand(result))
    /\ status' = CommandStatus(ExitCommand(result))
    /\ cpc' = "ended"
    /\ UNCHANGED <<extraCmd, mode, body, panic_info, caught, result, childStdout,
                   childStderr, exitCalls, childFault,
                   hookLog>>
    /\ UNCHANGED <<parentVars, termVars>>
    /\ UNCHANGED codecVars

\* the child is killed by a signal (a crash of the host) at any point
ChildCrash ==
    /\ ChildAlive
    /\ status' = Signalled
    /\ cpc' = "ended"
    /\ UNCHANGED <<extraCmd, mode, body, panic_info, caught, result, childStdout,
                   childStderr, execLog, exitCalls, childFault,
                   hookLog>>
    /\ UNCHANGED <<parentVars, termVars>>
    /\ UNCHANGED codecVars

(***************************************************************************)
(* Child side: plugin_body_with_terminator and TestTerminator.             *)
(***************************************************************************)
TUnreachable ==
    <<"i", "n", "t", "e", "r", "n", "a", "l", " ", "e", "r", "r", "o", "r", ":", " ",
      "e", "n", "t", "e", "r", "e", "d", " ", "u", "n", "r", "e", "a", "c", "h", "a",
      "b", "l", "e", " ", "c", "o", "d", "e", "\n">>

\* AsyncHandle::send: the handle is pending afterwards (sends coalesce)
AsyncSend(p) == TRUE

\* the event loop serves a pending handle once and clears it
AsyncServe(p) == FALSE

\* crate::schedule: the closure is queued for the loop
Schedule(q, r) == Append(q, r)

\* mutant of AfterSend: terminate borrows the terminator, which stays usable
AfterSendKeeps(n) == "held"

\* mutant of SendsInTerminate: the handle is sent twice
SendsInTerminateTwice == 1 + 1

\* the number of handle.send() calls terminate makes
SendsInTerminate == 1

\* terminate takes self by value: the terminator is gone after the last send
AfterSend(n) == IF n >= SendsInTerminate THEN "consumed" ELSE "set"

\* plugin_body_with_terminator: create the slot and the handle, call the body
\* with the terminator
PluginTermSetup ==
    /\ cpc = "entry"
    /\ mode = "terminator"
    /\ lock' = None
    /\ pending' = FALSE
    /\ tstate' = "held"
    /\ cpc' = "tbody"
    /\ UNCHANGED <<targ, tres, scheduled, nSends, nScheduled>>
    /\ UNCHANGED <<extraCmd, mode, body, panic_info, caught, result, childStdout,
                   childStderr, status, execLog, exitCalls, childFault,
                   hookLog>>
    /\ UNCHANGED parentVars
    /\ UNCHANGED codecVars

\* the test body returns to Neovim, whose event loop runs from then on
TermBodyReturn ==
    /\ cpc = "tbody"
    /\ \E out \in StdoutTexts : childStdout' = childStdout \o out
    /\ body' = [kind |-> "returned"]
    /\ cpc' = "loop"
    /\ UNCHANGED <<extraCmd, mode, panic_info, caught, result, childStderr, status,
                   execLog, exitCalls, childFault,
                   hookLog>>
    /\ UNCHANGED <<parentVars, termVars>>
    /\ UNCHANGED codecVars

\* terminate, first statement: res.map_err(Into::into)
TerminateMapErr ==
    /\ ChildAlive
    /\ tstate = "held"
    /\ \E a \in TermArgs :
        /\ targ' = a
        /\ tres' = MapErr(a)
    /\ tstate' = "mapped"
    /\ UNCHANGED <<lock, pending, scheduled, nSends, nScheduled>>
    /\ UNCHANGED <<parentVars, childVars>>
    /\ UNCHANGED codecVars

\* terminate, second statement: lock.set(res), unreachable!() if it fails
TerminateSet ==
    /\ ChildAlive
    /\ tstate = "mapped"
    /\ LET r == OnceLockSet(lock, tres) IN
       /\ lock' = r.cell
       /\ IF r.ok
          THEN /\ tstate' = "set"
               /\ UNCHANGED <<childStderr, childFault, status, cpc>>
          ELSE /\ tstate' = "panicked"
               /\ childFault' = "unreachable"
               /\ childStderr' = childStderr \o TUnreachable
               /\ \/ UNCHANGED <<status, cpc>>
                  \/ /\ status' = Signalled
                     /\ cpc' = "ended"
    /\ UNCHANGED <<targ, tres, pending, scheduled, nSends, nScheduled>>
    /\ UNCHANGED <<extraCmd, mode, body, panic_info, caught, result, childStdout,
                   execLog, exitCalls, hookLog>>
    /\ UNCHANGED parentVars
    /\ UNCHANGED codecVars

\* mutant of CanSend: the handle is sent before the slot is set
CanSendBeforeSet(ts) == ts = "mapped"

\* handle.send() is the statement after lock.set(res)
CanSend(ts) == ts = "set"

\* terminate, third statement: handle.send()
TerminateSend ==
    /\ ChildAlive
    /\ CanSend(tstate)
    /\ pending' = AsyncSend(pending)
    /\ nSends' = nSends + 1
    /\ tstate' = AfterSend(nSends + 1)
    /\ UNCHANGED <<targ, tres, lock, scheduled, nScheduled>>
    /\ UNCHANGED <<parentVars, childVars>>
    /\ UNCHANGED codecVars

\* mutant of DropSends: dropping the terminator signals the handle
DropSendsAlways == TRUE

\* TestTerminator has no Drop implementation: dropping it sends nothing
DropSends == FALSE

\* the TestTerminator is dropped without terminate having been called
TerminatorDrop ==
    /\ ChildAlive
    /\ tstate = "held"
    /\ tstate' = "dropped"
    /\ pending' = (pending \/ DropSends)
    /\ UNCHANGED <<targ, tres, lock, scheduled, nSends, nScheduled>>
    /\ UNCHANGED <<parentVars, childVars>>
    /\ UNCHANGED codecVars

\* the event loop runs the AsyncHandle's callback: read the slot, schedule exit
AsyncCallback ==
    /\ cpc = "loop"
    /\ pending
    /\ pending' = AsyncServe(pending)
    /\ IF lock = None
       THEN \* lock.get().unwrap() panics in the callback
            /\ childFault' = "unwrap"
            /\ childStderr' = childStderr \o TUnwrapNone
            /\ status' = Signalled
            /\ cpc' = "ended"
            /\ UNCHANGED <<scheduled, nScheduled>>
       ELSE /\ scheduled' = Schedule(scheduled, lock[1])
            /\ nScheduled' = nScheduled + 1
            /\ UNCHANGED <<childFault, childStderr, status, cpc>>
    /\ UNCHANGED <<tstate, targ, tres, lock, nSends>>
    /\ UNCHANGED <<extraCmd, mode, body, panic_info, caught, result, childStdout,
                   execLog, exitCalls, hookLog>>
    /\ UNCHANGED parentVars
    /\ UNCHANGED codecVars

\* the event loop runs the scheduled closure, which calls exit(result)
ScheduledRun ==
    /\ cpc = "loop"
    /\ scheduled # <<>>
    /\ result' = Head(scheduled)
    /\ scheduled' = Tail(scheduled)
    /\ exitCalls' = exitCalls + 1
    /\ cpc' = "exit"
    /\ UNCHANGED <<tstate, targ, tres, lock, pending, nSends, nScheduled>>
    /\ UNCHANGED <<extraCmd, mode, body, panic_info, caught, childStdout, childStderr,
                   status, execLog, childFault,
                   hookLog>>
    /\ UNCHANGED parentVars
    /\ UNCHANGED codecVars

(***************************************************************************)
(* Specifications.                                                         *)
(***************************************************************************)
ParentStep ==
    \/ ParentSetHook
    \/ ParentResolve
    \/ ParentCheckExists
    \/ ParentSpawn
    \/ ParentEcho
    \/ ParentInterpret

PlainStep ==
    \/ ChildExtraCmd
    \/ ChildLoad
    \/ PluginSetHook
    \/ BodyThreadPanic
    \/ PluginCallBody
    \/ PluginMatch
    \/ ExitPrint
    \/ ExitExec

TermStep ==
    \/ PluginTermSetup
    \/ TermBodyReturn
    \/ TerminateMapErr
    \/ TerminateSet
    \/ TerminateSend
    \/ TerminatorDrop
    \/ AsyncCallback
    \/ ScheduledRun

Next == ParentStep \/ PlainStep \/ TermStep \/ ChildCrash

Spec == Init /\ [][Next]_vars

\* the host is not killed and its event loop is fair: a pending handle is
\* served, a scheduled closure is run, and exit runs to its end
LiveNext == ParentStep \/ PlainStep \/ TermStep

LiveSpec ==
    /\ Init
    /\ [][LiveNext]_vars
    /\ WF_vars(AsyncCallback)
    /\ WF_vars(ScheduledRun)
    /\ WF_vars(ExitPrint)
    /\ WF_vars(ExitExec)

(***************************************************************************)
(* The codec on its own: one Failure is encoded by Display and the text is *)
(* decoded by Failure::from_str.                                           *)
(***************************************************************************)
\* the Failure values the run is tried on; a panic record has its location
\* present or absent, as From<&panic::PanicInfo> builds it
CodecInputs ==
    {FailureError(m) : m \in Msgs}
    \cup {FailurePanic(MkPanicInfo(m, t,
                                   IF l = None THEN None ELSE Some(l[1].file),
                                   IF l = None THEN None ELSE Some(l[1].line),
                                   IF l = None THEN None ELSE Some(l[1].column))) :
            m \in Msgs, t \in {TMain, TUnnamed}, l \in Locations}

TRawLead ==
    <<"x", " ", "e", "r", "r", "o", "r", ":", " ", "e", " ", "\n">>

TRawErrorInPanic ==
    <<"x", " ", "p", "a", "n", "i", "c", ":", "o", "o", "p", "s", "\n", "t", "h", "r",
      "e", "a", "d", ":", "m", "a", "i", "n", "\n", "f", "i", "l", "e", ":", "f", " ",
      "e", "r", "r", "o", "r", ":", "l", "a", "t", "e", "\n", "l", "i", "n", "e", ":",
      "4", "2", "\n", "c", "o", "l", "u", "m", "n", ":", "7">>

TRawErrorThenPanic ==
    <<"e", "r", "r", "o", "r", ":", "p", "a", "n", "i", "c", ":", "o", "o", "p", "s",
      "\n", "t", "h", "r", "e", "a", "d", ":", "m", "a", "i", "n", "\n", "f", "i", "l",
      "e", ":", "f", "\n", "l", "i", "n", "e", ":", "4", "2", "\n", "c", "o", "l", "u",
      "m", "n", ":", "7">>

TRawTwoErrors ==
    <<"e", "r", "r", "o", "r", ":", "a", " ", "e", "r", "r", "o", "r", ":", "b">>

TRawBadLine ==
    <<"p", "a", "n", "i", "c", ":", "p", "\n", "t", "h", "r", "e", "a", "d", ":", "t",
      "\n", "f", "i", "l", "e", ":", "f", "\n", "l", "i", "n", "e", ":", "x", "\n",
      "c", "o", "l", "u", "m", "n", ":", "7">>

TRawNoColumn ==
    <<"p", "a", "n", "i", "c", ":", "p", "\n", "t", "h", "r", "e", "a", "d", ":", "t",
      "\n", "f", "i", "l", "e", ":", "f", "\n", "l", "i", "n", "e", ":", "1", "\n">>

TRawRepeat ==
    <<" ", "p", "a", "n", "i", "c", ":", " ", "a", " ", "p", "a", "n", "i", "c", ":",
      "b", " ", "f", "i", "l", "e", ":", "m", " ", "\n", "t", "h", "r", "e", "a", "d",
      ":", " ", "x", " ", "t", "h", "r", "e", "a", "d", ":", "y", " ", "l", "i", "n",
      "e", ":", "9", "\n", " ", "f", "i", "l", "e", ":", " ", "f", " ", "c", "o", "l",
      "u", "m", "n", ":", "3", " ", "f", "i", "l", "e", ":", "g", "\n", "l", "i", "n",
      "e", ":", " ", "+", "0", "7", " ", "\n", "c", "o", "l", "u", "m", "n", ":", " ",
      "7", " ", "\n">>

TRawSpaced ==
    <<"\n", " ", "e", "r", "r", "o", "r", ":", " ", "	", " ", "a", " ", " ", "b", " ",
      "\n", "\n">>

TRawJunk ==
    <<"p", "a", "n", "i", "c">>

\* texts given to Failure::from_str that no Display produced
RawTexts ==
    {<<>>, TRawLead, TRawErrorInPanic, TRawErrorThenPanic, TRawTwoErrors,
     TRawBadLine, TRawNoColumn, TRawRepeat, TRawSpaced, TRawJunk}

CodecInit ==
    /\ InitHarness
    /\ kpc = "start"
    /\ kIn \in CodecInputs \cup {NoValue}
    /\ kText = <<>>
    /\ kOut = None
    /\ kText2 = <<>>
    /\ kOut2 = None

\* any text may be on the error stream the parent reads
CodecArrive ==
    /\ kpc = "start"
    /\ kIn = NoValue
    /\ kText' \in RawTexts
    /\ kpc' = "encoded"
    /\ UNCHANGED <<kIn, kOut, kText2, kOut2>>
    /\ UNCHANGED <<parentVars, childVars, termVars>>

\* format!("{failure}")
CodecEncode ==
    /\ kpc = "start"
    /\ kIn # NoValue
    /\ kText' = DisplayFailure(kIn)
    /\ kpc' = "encoded"
    /\ UNCHANGED <<kIn, kOut, kText2, kOut2>>
    /\ UNCHANGED <<parentVars, childVars, termVars>>

\* Failure::from_str(&text)
CodecDecode ==
    /\ kpc = "encoded"
    /\ kOut' = FailureFromStr(kText)
    /\ kpc' = "decoded"
    /\ UNCHANGED <<kIn, kText, kText2, kOut2>>
    /\ UNCHANGED <<parentVars, childVars, termVars>>

\* format!("{failure}") of the Failure that was decoded
CodecReencode ==
    /\ kpc = "decoded"
    /\ kOut # None
    /\ kText2' = DisplayFailure(kOut[1])
    /\ kpc' = "reencoded"
    /\ UNCHANGED <<kIn, kText, kOut, kOut2>>
    /\ UNCHANGED <<parentVars, childVars, termVars>>

\* Failure::from_str(&text) of the second text
CodecRedecode ==
    /\ kpc = "reencoded"
    /\ kOut2' = FailureFromStr(kText2)
    /\ kpc' = "redecoded"
    /\ UNCHANGED <<kIn, kText, kOut, kText2>>
    /\ UNCHANGED <<parentVars, childVars, termVars>>

CodecNext ==
    CodecArrive \/ CodecEncode \/ CodecDecode \/ CodecReencode \/ CodecRedecode

CodecSpec == CodecInit /\ [][CodecNext]_vars

(***************************************************************************)
(* Properties.                                                             *)
(***************************************************************************)
\* the substrings the protocol reserves
Reserved == {KwThread, KwFile, KwLine, KwColumn, KwError}

NoReserved(t) == \A k \in Reserved : ~Contains(t, k)

Trimmed(t) == Trim(t) = t

\* the text fields of a Failure
FieldsOf(f) ==
    IF f.tag = "Error" THEN {f.msg}
    ELSE {f.info.msg, f.info.thread}
         \cup (IF f.info.file # None THEN {f.info.file[1]} ELSE {})

\* the child went through exit and Neovim ran the quit command
ExitCompleted == cpc = "ended" /\ execLog # <<>>

\* the record the child's hook captured for the panic of the body
Captured == PanicInfoFrom(body.payload, body.thread, body.loc)

\* C1: round trip. Every Failure whose text fields hold none of the reserved
\* substrings is decoded, from the text Display gives for it, to an equal
\* Failure. Stated here for fields without leading or trailing whitespace,
\* which from_str trims off every field: the weaker statement already fails.
C1_RoundTrip ==
    (kpc = "decoded" /\ kIn # NoValue
     /\ \A t \in FieldsOf(kIn) : NoReserved(t) /\ Trimmed(t))
        => kOut = Some(kIn)

\* C2: whenever the body run by plugin_body panicked and the child went through
\* exit, test_body ends in a panic, never in Err; when the panic had no
\* location the panic raised still carries the message and a thread name.
\* Stated here for panics whose message and thread name hold no reserved
\* substring and that no panic of another thread preceded: the weaker
\* statement already fails.
C2_PanicNotMasked ==
    (ppc = "done" /\ mode = "plain" /\ body.kind = "panic" /\ ExitCompleted
     /\ hookLog = <<Captured>>
     /\ \A t \in FieldsOf(FailurePanic(Captured)) : NoReserved(t))
        => /\ parentResult.tag = "Panic"
           /\ body.loc = None
                => /\ parentResult.payload.ty = "PanicInfo"
                   /\ parentResult.payload.info.msg = Trim(Captured.msg)
                   /\ parentResult.payload.info.thread # <<>>

\* C3: a body that returns Err(m) makes the child write "error:" m (and the
\* newline of eprintln!) to its error stream and quit with `cquit 1`, exit
\* code 1; test_body then returns Err(m trimmed).
C3_ExplicitFailure ==
    (mode = "plain" /\ body.kind = "err" /\ ExitCompleted)
        => /\ childStderr = KwError \o body.msg \o NL
           /\ execLog = <<"cquit 1">>
           /\ status = [kind |-> "code", code |-> 1]
           /\ ppc = "done" => parentResult = [tag |-> "Err", msg |-> Trim(body.msg)]

C3_Witness ==
    /\ ppc = "done"
    /\ mode = "plain"
    /\ body.kind = "err"
    /\ body.msg = TLead
    /\ ExitCompleted
    /\ parentResult = [tag |-> "Err", msg |-> <<"x">>]

\* C4 as stated: for every panic of the body with a location, the payload of
\* the panic test_body raises equals the record the child's hook captured.
C4_Original ==
    (ppc = "done" /\ mode = "plain" /\ body.kind = "panic" /\ body.loc # None
     /\ ExitCompleted)
        => parentResult = PPanic(InfoPayload(Captured))

\* C4 amended: the same for panics that no panic of another thread preceded
\* in the child and whose message, thread name and file hold no reserved
\* substring and no leading or trailing whitespace; the thread name the
\* parent's hook prints does not change the payload.
C4_PanicRecord ==
    (ppc = "done" /\ mode = "plain" /\ body.kind = "panic" /\ body.loc # None
     /\ ExitCompleted
     /\ hookLog = <<Captured>>
     /\ \A t \in FieldsOf(FailurePanic(Captured)) : NoReserved(t) /\ Trimmed(t))
        => /\ parentResult = PPanic(InfoPayload(Captured))
           /\ parentResult.payload.info = panic_info[1]

C4_Witness ==
    /\ ppc = "done"
    /\ mode = "plain"
    /\ body.kind = "panic"
    /\ body.payload = [ty |-> "str", text |-> TOops]
    /\ body.thread = None
    /\ body.loc = Some([file |-> TFileRs, line |-> 42, column |-> 7])
    /\ hookLog = <<Captured>>
    /\ ExitCompleted
    /\ parentThread = Some(TMain)
    /\ parentResult =
         PPanic(InfoPayload(MkPanicInfo(TOops, TUnnamed, Some(TFileRs), Some(42), Some(7))))

\* C5: a body that returns success makes the child write nothing to its error
\* stream and quit with `qall!`, exit code 0; test_body then returns Ok(()).
C5_Success ==
    (mode = "plain" /\ body.kind \in {"unit", "ok"} /\ cpc = "ended"
     /\ status # Signalled)
        => /\ childStderr = <<>>
           /\ execLog = <<"qall!">>
           /\ status = [kind |-> "code", code |-> 0]
           /\ ppc = "done" => parentResult = [tag |-> "Ok"]

C5_Witness ==
    /\ ppc = "done"
    /\ mode = "plain"
    /\ body.kind = "unit"
    /\ execLog = <<"qall!">>
    /\ parentResult = [tag |-> "Ok"]

\* the parent got past the path resolution and found no file there
MissingSeen ==
    /\ ppc \in {"spawn", "wait", "interpret", "done"}
    /\ libPath # <<>>
    /\ ~libExists

\* C6 as stated: when the library file is missing at the resolved path,
\* test_body returns the "run cargo build" error and no process at all has
\* been spawned.
C6_Original ==
    MissingSeen
        => /\ ppc = "done"
           /\ parentResult = [tag |-> "Err", msg |-> TNotFoundHead \o libPath \o TNotFoundTail]
           /\ spawned = <<>>

\* C6 amended: ... and Neovim has not been spawned; without an explicit
\* library path, `cargo metadata` has been run to resolve the path.
C6_ArtifactMissing ==
    MissingSeen
        => /\ ppc = "done"
           /\ parentResult = [tag |-> "Err", msg |-> TNotFoundHead \o libPath \o TNotFoundTail]
           /\ cpc = "idle"
           /\ spawned = (IF libArg = None THEN <<"cargo">> ELSE <<>>)

C6_Witness ==
    /\ ppc = "done"
    /\ ~libExists
    /\ libArg = None
    /\ libPath = DefaultLibPath
    /\ spawned = <<"cargo">>
    /\ parentResult.tag = "Err"

\* C7: when the child ended unsuccessfully with an empty error stream,
\* test_body returns Err: the exit code message when there is a code, the
\* crash message when there is none; it neither decodes nor panics.
C7_EmptyStderr ==
    (ppc = "done" /\ cpc = "ended" /\ ~(status.kind = "code" /\ status.code = 0)
     /\ childStderr = <<>>)
        => /\ parentResult.tag = "Err"
           /\ parentResult.msg =
                (IF status.kind = "code"
                 THEN TExitCodeHead \o FmtU32(status.code)
                 ELSE TSegfault)
           /\ parentStderr = <<>>

C7_Witness ==
    /\ ppc = "done"
    /\ cpc = "ended"
    /\ status = Signalled
    /\ childStderr = <<>>
    /\ parentResult = [tag |-> "Err", msg |-> TSegfault]

\* C8: the slot of the terminator is assigned at most once: once it holds a
\* result no step changes it, and terminate never finds it full, so the
\* unreachable!() that rejects a second assignment is never entered.
C8_SingleAssignment ==
    [][/\ lock # None => lock' = lock
       /\ childFault' # "unreachable"
       /\ tstate' = "consumed" => lock' = Some(tres')]_vars

C8_Witness ==
    /\ mode = "terminator"
    /\ tstate = "consumed"
    /\ lock = Some(tres)
    /\ tres.tag = "Err"
    /\ cpc = "ended"
    /\ result = tres

\* C9: in every run exit is called at most once and at most one quit command
\* is issued; the handle is sent at most once and exit is scheduled at most
\* once.
C9_AtMostOnce ==
    /\ exitCalls <= 1
    /\ Len(execLog) <= 1
    /\ nSends <= 1
    /\ nScheduled <= 1
    /\ Len(scheduled) + exitCalls <= 1

C9_Witness ==
    /\ mode = "terminator"
    /\ cpc = "ended"
    /\ nSends = 1
    /\ nScheduled = 1
    /\ exitCalls = 1
    /\ Len(execLog) = 1

\* exit ran to its end with the result terminate stored in the slot
Completed ==
    /\ cpc = "ended"
    /\ lock # None
    /\ lock = Some(MapErr(targ))
    /\ result = lock[1]
    /\ IF targ.kind = "ok"
       THEN /\ execLog = <<"qall!">>
            /\ childStderr = <<>>
            /\ status = [kind |-> "code", code |-> 0]
       ELSE /\ execLog = <<"cquit 1">>
            /\ childStderr = DisplayFailure(lock[1].failure) \o NL
            /\ status = [kind |-> "code", code |-> 1]

\* C10: once terminate has been called and the event loop runs (the test body
\* has returned to Neovim), the loop eventually serves the handle, reads the
\* slot and runs exit with the stored result: `qall!` for Ok, the encoded
\* failure and `cquit 1` for Err.
C10_AsyncCompletion == (tstate = "consumed" /\ cpc = "loop") ~> Completed

C10_Witness ==
    /\ mode = "terminator"
    /\ Completed
    /\ targ.kind = "panic"
    /\ nScheduled = 1

\* C11: once the TestTerminator has been dropped without a call of terminate
\* it stays dropped, the slot stays empty, the handle is never sent or served,
\* exit is never called and no quit command is issued: the child keeps running
\* and ends only if a signal kills it.
C11_LeakHazard ==
    [][/\ tstate = "dropped" => tstate' = "dropped"
       /\ tstate' = "dropped"
            => /\ lock' = None
               /\ ~pending'
               /\ nSends' = 0
               /\ scheduled' = <<>>
               /\ exitCalls' = 0
               /\ execLog' = <<>>
               /\ cpc' = "ended" => status' = Signalled]_vars

C11_Witness ==
    /\ tstate = "dropped"
    /\ cpc = "loop"
    /\ ppc = "wait"
    /\ exitCalls = 0

\* C12: every text that contains "error:" is decoded to an Error whose message
\* is the trimmed text after the first "error:", never to a Panic, also when
\* the text holds "panic:" and a complete panic block.
C12_ErrorPriority ==
    (kpc = "decoded" /\ Contains(kText, KwError))
        => \E i \in 1..Len(kText) :
            /\ MatchAt(kText, KwError, i)
            /\ \A j \in 1..(i - 1) : ~MatchAt(kText, KwError, j)
            /\ kOut = Some([tag |-> "Error",
                            msg |-> Trim(SubSeq(kText, i + Len(KwError), Len(kText)))])

C12_Witness ==
    /\ kpc = "decoded"
    /\ kText = TRawErrorInPanic
    /\ PanicInfoFromStr(kText) # None
    /\ kOut # None
    /\ kOut[1].tag = "Error"
    /\ SubSeq(kOut[1].msg, 1, 4) = <<"l", "a", "t", "e">>

\* the parent has read the output of an ended child and is past the echo
EchoDone == ppc \in {"interpret", "done"} /\ cpc = "ended"

\* C13 as stated: non-empty standard output of the child is echoed as it is
\* (println! may add a newline) before the status and the error stream are
\* interpreted, on success and on failure.
C13_Original ==
    (EchoDone /\ childStdout # <<>>)
        => /\ parentStdout \in {childStdout, childStdout \o NL}
           /\ ppc = "interpret" => parentResult = NoValue

\* C13 amended: the child's standard output is echoed with leading and
\* trailing whitespace trimmed off and a newline added, and only when the
\* trimmed text is not empty; this happens before the status and the error
\* stream are interpreted, on success and on every failure path.
C13_Passthrough ==
    EchoDone
        => /\ parentStdout = (IF Trim(childStdout) # <<>>
                              THEN Trim(childStdout) \o NL
                              ELSE <<>>)
           /\ ppc = "interpret" => parentResult = NoValue /\ parentStderr = <<>>

C13_Witness ==
    /\ ppc = "done"
    /\ cpc = "ended"
    /\ childStdout = THi
    /\ parentStdout = <<"h", "i", "\n">>
    /\ parentResult.tag = "Err"

\* C14: the handle is pending, and the callback has run, only after the slot
\* was set and the handle sent; the callback never reads an empty slot, and
\* what it schedules and exit receives is the value of the slot.
C14_ReaderAfterWriter ==
    /\ pending => lock # None /\ nSends >= 1
    /\ nScheduled > 0 => lock # None /\ nSends >= 1
    /\ mode = "terminator" => childFault # "unwrap"
    /\ \A i \in 1..Len(scheduled) : scheduled[i] = lock[1]
    /\ (mode = "terminator" /\ exitCalls > 0) => result = lock[1]

C14_Witness ==
    /\ mode = "terminator"
    /\ nScheduled = 1
    /\ lock # None
    /\ cpc = "exit"
    /\ result = lock[1]

\* C15: whenever catch_unwind returned Err in plugin_body the slot is filled,
\* the unwrap of the slot does not fail, and the result given to exit is the
\* Panic with the record of the slot.
C15_SlotPresent ==
    (mode = "plain" /\ caught.tag = "Err")
        => /\ panic_info # None
           /\ childFault = "none"
           /\ exitCalls > 0 => result = RErr(FailurePanic(panic_info[1]))

\* C16: once the slot holds a record no step changes it; the slot holds the
\* record of the first hook invocation of the run, and a Panic result given
\* to exit carries that record.
C16_FirstPanicWins ==
    [][/\ panic_info # None => panic_info' = panic_info
       /\ (mode' = "plain" /\ hookLog' # <<>>) => panic_info' = Some(hookLog'[1])
       /\ (mode' = "plain" /\ exitCalls' > 0 /\ caught'.tag = "Err")
            => result' = RErr(FailurePanic(hookLog'[1]))]_vars

C16_Witness ==
    /\ mode = "plain"
    /\ Len(hookLog) = 2
    /\ hookLog[1] # hookLog[2]
    /\ body.kind = "panic"
    /\ panic_info = Some(hookLog[1])
    /\ result = RErr(FailurePanic(hookLog[1]))
    /\ ExitCompleted

\* the child ended after the runner was entered, and not by a kill from outside
RunnerEnded ==
    /\ cpc = "ended"
    /\ body.kind # "none"
    /\ ~(status = Signalled /\ childFault = "none")

\* C17: a run of plugin_body that is not killed from outside ends with one
\* result, one call of exit and one quit command: `qall!` exactly for Ok,
\* `cquit 1` exactly for a failure, whose text is on the error stream before
\* the command is issued.
C17_OneOutcomeOneExit ==
    /\ (mode = "plain" /\ RunnerEnded)
         => /\ result.tag \in {"Ok", "Err"}
            /\ exitCalls = 1
            /\ execLog = <<IF result = ROk THEN "qall!" ELSE "cquit 1">>
            /\ childStderr = BodyErr(body) \o (IF result = ROk THEN <<>>
                                                ELSE DisplayFailure(result.failure) \o NL)
    /\ (mode = "plain" /\ cpc = "exec")
         => /\ execLog = <<>>
            /\ childStderr = BodyErr(body) \o (IF result = ROk THEN <<>>
                                                ELSE DisplayFailure(result.failure) \o NL)

\* C18: once exit has been entered no step of the runner or of a scheduled
\* callback follows, only the steps of exit; and a child that ended after the
\* runner was entered, not killed from outside, went through exit and its
\* quit command.
C18_ExitOnlyWayOut ==
    [][/\ cpc \in {"exit", "exec"}
            => /\ cpc' \in {"exit", "exec", "ended"}
               /\ <<caught, result, exitCalls, scheduled, nScheduled>>' =
                    <<caught, result, exitCalls, scheduled, nScheduled>>
       /\ (cpc' = "ended" /\ body'.kind # "none"
           /\ ~(status' = Signalled /\ childFault' = "none"))
            => exitCalls' = 1 /\ Len(execLog') = 1]_vars

\* C19 as stated: whenever the child ended with no exit code test_body
\* returns the crash error, whatever the error stream holds. Stated here for
\* a child killed from outside: the weaker statement already fails.
C19_Original ==
    (ppc = "done" /\ cpc = "ended" /\ status.kind = "signal" /\ childFault = "none")
        => parentResult = PErr(TSegfault)

\* C19 amended: when the child ended with no exit code and an empty error
\* stream test_body returns the crash error; a non-empty error stream is
\* decoded as after a non-zero exit code: Err of the message, a panic with the
\* record, or Err of the raw text when it does not decode.
C19_SignalTermination ==
    (ppc = "done" /\ cpc = "ended" /\ status.kind = "signal")
        => IF childStderr = <<>>
           THEN parentResult = PErr(TSegfault)
           ELSE LET f == FailureFromStr(childStderr) IN
                /\ f = None => parentResult = PErr(childStderr)
                /\ (f # None /\ f[1].tag = "Error") => parentResult = PErr(f[1].msg)
                /\ (f # None /\ f[1].tag = "Panic")
                     => parentResult = PPanic(InfoPayload(f[1].info))

C19_Witness ==
    /\ ppc = "done"
    /\ cpc = "ended"
    /\ status.kind = "signal"
    /\ execLog = <<>>
    /\ childStderr = KwError \o TOops \o NL
    /\ parentResult = PErr(TOops)

\* C20: when the child ended unsuccessfully with a non-empty error stream
\* that decodes neither as "error:" text nor by the panic grammar, test_body
\* returns Err of the error stream's text as it is; it does not return Ok
\* and does not panic.
C20_DecodeError ==
    (ppc = "done" /\ cpc = "ended" /\ ~Success(status) /\ childStderr # <<>>
     /\ ~Contains(childStderr, KwError)
     /\ PanicInfoFromStr(childStderr) = None)
        => /\ parentResult = PErr(childStderr)
           /\ parentStderr = <<>>

C20_Witness ==
    /\ ppc = "done"
    /\ body.kind = "panic"
    /\ body.loc = Some([file |-> TFileLineKw, line |-> 42, column |-> 7])
    /\ ExitCompleted
    /\ status = [kind |-> "code", code |-> 1]
    /\ Contains(childStderr, KwColumn)
    /\ parentResult = PErr(childStderr)

\* C21: whenever the exit status of the child is success test_body returns
\* Ok(()) and raises no panic, whatever the error stream holds, also text
\* that decodes as an Error or as a Panic.
C21_SuccessDecides ==
    (ppc = "done" /\ cpc = "ended" /\ Success(status))
        => /\ parentResult = POk
           /\ parentStderr = <<>>

C21_Witness ==
    /\ ppc = "done"
    /\ cpc = "ended"
    /\ Success(status)
    /\ body.kind = "say"
    /\ FailureFromStr(childStderr) # None
    /\ FailureFromStr(childStderr)[1].tag = "Panic"
    /\ parentResult = POk

\* test_body raised the panic decoded from the child's error stream
Reraised ==
    /\ ppc = "done"
    /\ cpc = "ended"
    /\ parentResult.tag = "Panic"
    /\ parentResult.payload.ty = "PanicInfo"

\* the parent's current thread has a name that is not empty
ParentNamed == parentThread # None /\ parentThread[1] # <<>>

\* what the parent's hook prints for the re-raised record under a thread name
Rendered(thread) ==
    DisplayPanicInfo([parentResult.payload.info EXCEPT !.thread = thread]) \o NL

\* C22 as stated: the parent's hook prints the re-raised record with the
\* thread name decoded from the child; only when the child had no thread name
\* ("<unnamed>") does it print the parent's thread name.
C22_Original ==
    Reraised
        => parentStderr =
             Rendered(IF parentResult.payload.info.thread = TUnnamed /\ ParentNamed
                      THEN parentThread[1]
                      ELSE parentResult.payload.info.thread)

\* C22 amended: the parent's hook prints the re-raised record with the
\* parent's current thread name whenever that thread has a non-empty name,
\* and with the thread name decoded from the child only when it has not.
C22_ThreadShown ==
    Reraised
        => parentStderr =
             Rendered(IF ParentNamed
                      THEN parentThread[1]
                      ELSE parentResult.payload.info.thread)

C22_Witness ==
    /\ Reraised
    /\ parentResult.payload.info.thread = TMain
    /\ parentThread = Some(TTestName)
    /\ parentStderr = Rendered(TTestName)

\* what Failure::from_str may return: Err(()), an Error or a Panic whose
\* record has all its fields
DecodeResults(o) ==
    \/ o = None
    \/ /\ o # None
       /\ \/ o[1].tag = "Error"
          \/ /\ o[1].tag = "Panic"
             /\ o[1].info.file # None
             /\ o[1].info.line # None
             /\ o[1].info.column # None

\* C23: decoding ends with a result for every text: Err(()), an Error or a
\* Panic; and for every text that decodes to a Failure, the text Display
\* gives for that Failure decodes to the same Failure again, also when the
\* first text repeats keywords or has whitespace around its fields.
C23_Canonical ==
    /\ kpc \in {"decoded", "reencoded", "redecoded"} => DecodeResults(kOut)
    /\ kpc = "redecoded" => kOut2 = kOut

C23_Witness ==
    /\ kpc = "redecoded"
    /\ kText = TRawRepeat
    /\ kText2 # kText
    /\ kOut # None
    /\ kOut[1].tag = "Panic"
    /\ kOut[1].info.line = Some(7)
    /\ kOut2 = kOut
====
